---- MODULE Spec2Model ----
(***************************************************************************)
(* xclips (src/src/main.rs): timestamp and span parsing, span collection,  *)
(* output naming and the sequential ffmpeg extraction loop.                *)
(*                                                                         *)
(* Text is a sequence of one-character strings.  A u32/u64 quantity is a   *)
(* pair <<hi, lo>> standing for hi * 65536 + lo with 0 <= lo < 65536, so   *)
(* that the full 32-bit range (and the 64-bit duration arithmetic) is      *)
(* computed exactly.                                                       *)
(***************************************************************************)
EXTENDS Integers, Sequences, FiniteSets, TLC

\* ------------------------------------------------------------ characters

\* The characters Rust's u32::from_str accepts as digits.
AsciiDigits == {"0", "1", "2", "3", "4", "5", "6", "7", "8", "9"}

\* A decimal digit outside ASCII (ARABIC-INDIC DIGIT THREE, 2 bytes of UTF-8).
ArabicThree == "U+0663"

\* A byte that is not valid UTF-8 (possible in a path, never in a String).
BadByte == "0xFF"

\* The regex class \d of the regex crate is Unicode-aware (class Nd).
IsDigit(c) == c \in AsciiDigits \/ c = ArabicThree

\* The regex class . matches every character but the line feed.
IsDot(c) == c # "\n"

DigitVal(c) ==
    CASE c = "0" -> 0 [] c = "1" -> 1 [] c = "2" -> 2 [] c = "3" -> 3
      [] c = "4" -> 4 [] c = "5" -> 5 [] c = "6" -> 6 [] c = "7" -> 7
      [] c = "8" -> 8 [] c = "9" -> 9

DigitChar(d) == <<"0", "1", "2", "3", "4", "5", "6", "7", "8", "9">>[d + 1]

\* The length in bytes of the UTF-8 encoding of a character of the model.
ByteLen(c) == IF c = ArabicThree THEN 2 ELSE 1

Max(S) == CHOOSE x \in S : \A y \in S : y <= x

\* ------------------------------------------------------------ u32 / u64

U16 == 256 * 256

N(hi, lo) == <<hi + (lo \div U16), lo % U16>>

NOfInt(i) == N(0, i)

NAdd(a, b) == N(a[1] + b[1], a[2] + b[2])

NMul(k, a) == N(k * a[1] + ((k * a[2]) \div U16), (k * a[2]) % U16)

\* a - b for a >= b
NSub(a, b) ==
    IF a[2] >= b[2] THEN <<a[1] - b[1], a[2] - b[2]>>
    ELSE <<a[1] - b[1] - 1, a[2] + U16 - b[2]>>

NLess(a, b) == a[1] < b[1] \/ (a[1] = b[1] /\ a[2] < b[2])

NLeq(a, b) == ~NLess(b, a)

\* u32::MAX is <<65535, 65535>>
FitsU32(a) == a[1] >= 0 /\ a[1] < U16

\* u64::MAX is <<2^48 - 1, 65535>>
FitsU64(a) == a[1] >= 0 /\ (a[1] \div U16) \div U16 < U16

WrapU32(a) == <<a[1] % U16, a[2]>>

\* quotient and remainder of a by a small k
NDiv(a, k) ==
    LET r  == a[1] % k
        lo == r * U16 + a[2]
    IN  <<a[1] \div k, lo \div k>>

NMod(a, k) == ((a[1] % k) * U16 + a[2]) % k

\* ------------------------------------------------------------ str::parse

\* Not a number: the Err of str::parse, or an arithmetic overflow under
\* overflow checks (both end in a panic where the program unwraps).
ParseFail == <<-1, -1>>

Overflowed == <<-2, -2>>

Bad(a) == a[1] < 0

\* u32::from_str: ASCII digits only, checked multiply-add per digit.
RECURSIVE ParseU32Acc(_, _, _)
ParseU32Acc(s, i, acc) ==
    IF i > Len(s) THEN acc
    ELSE IF s[i] \notin AsciiDigits THEN ParseFail
    ELSE LET nxt == NAdd(NMul(10, acc), NOfInt(DigitVal(s[i])))
         IN  IF FitsU32(nxt) THEN ParseU32Acc(s, i + 1, nxt) ELSE ParseFail

ParseU32(s) == IF s = <<>> THEN ParseFail ELSE ParseU32Acc(s, 1, <<0, 0>>)

\* ------------------------------------------------------------ format!

\* "{}" of an unsigned integer: its decimal digits, no padding.
RECURSIVE FormatDec(_)
FormatDec(a) ==
    IF a[1] = 0 /\ a[2] < 10 THEN <<DigitChar(a[2])>>
    ELSE Append(FormatDec(NDiv(a, 10)), DigitChar(NMod(a, 10)))

RECURSIVE Zeros(_)
Zeros(k) == IF k <= 0 THEN <<>> ELSE <<"0">> \o Zeros(k - 1)

\* "{:0width$}": zero-padded on the left to at least width characters.
FormatPad(a, width) ==
    LET d == FormatDec(a) IN Zeros(width - Len(d)) \o d

\* ------------------------------------------------------------ regexes

\* an optional capture group that did not take part in the match
None == <<"None">>

\* Regex::captures returning None
NoMatch == [matched |-> FALSE]

SubFrom(s, i) == SubSeq(s, i, Len(s))

AllDigits(s) == \A i \in 1..Len(s) : IsDigit(s[i])

\* the number of leading \d characters of s
RECURSIVE DigitRun(_)
DigitRun(s) ==
    IF s = <<>> \/ ~IsDigit(s[1]) THEN 0 ELSE 1 + DigitRun(Tail(s))

\* The common tail  \.?(\d{1,3})?$  of the three timestamp patterns, matched
\* against the rest r of the text: whether it matches, and its capture.
FracTailMatches(r) ==
    \/ r = <<>>
    \/ r[1] = "." /\ Len(r) <= 4 /\ AllDigits(Tail(r))
    \/ Len(r) <= 3 /\ AllDigits(r)

FracTailGroup(r) ==
    IF r = <<>> THEN None
    ELSE IF r[1] = "." THEN (IF Len(r) = 1 THEN None ELSE Tail(r))
    ELSE r

\* ^(\d+)\.?(\d{1,3})?$  -- \d+ is greedy: the longest run that lets the
\* rest match.
RE_S_MS(s) ==
    LET K == {k \in 1..DigitRun(s) : FracTailMatches(SubFrom(s, k + 1))}
    IN  IF K = {} THEN NoMatch
        ELSE LET k == Max(K)
             IN  [matched |-> TRUE, g1 |-> SubSeq(s, 1, k), g2 |-> FracTailGroup(SubFrom(s, k + 1))]

\* whether s, from position i, holds ':' and exactly two \d
ColonTwoDigits(s, i) ==
    /\ Len(s) >= i + 2
    /\ s[i] = ":"
    /\ IsDigit(s[i + 1])
    /\ IsDigit(s[i + 2])

\* ^(\d+):(\d+)\.?(\d{1,3})?$ : RE_M_S_MS with a seconds field of any length
RE_M_S_MS_AnyLength(s) ==
    LET K == {k \in 1..DigitRun(s) :
                /\ Len(s) >= k + 2
                /\ s[k + 1] = ":"
                /\ DigitRun(SubFrom(s, k + 2)) >= 1}
        k == Max(K)
        r == SubFrom(s, k + 2)
        J == {j \in 1..DigitRun(r) : FracTailMatches(SubFrom(r, j + 1))}
    IN  IF K = {} \/ J = {} THEN NoMatch
        ELSE [matched |-> TRUE, g1 |-> SubSeq(s, 1, k),
              g2 |-> SubSeq(r, 1, Max(J)),
              g3 |-> FracTailGroup(SubFrom(r, Max(J) + 1))]

\* ^(\d+):(\d{2})\.?(\d{1,3})?$
RE_M_S_MS(s) ==
    LET K == {k \in 1..DigitRun(s) :
                /\ ColonTwoDigits(s, k + 1)
                /\ FracTailMatches(SubFrom(s, k + 4))}
    IN  IF K = {} THEN NoMatch
        ELSE LET k == Max(K)
             IN  [matched |-> TRUE, g1 |-> SubSeq(s, 1, k),
                  g2 |-> SubSeq(s, k + 2, k + 3),
                  g3 |-> FracTailGroup(SubFrom(s, k + 4))]

\* ^(\d+):(\d{2}):(\d{2})\.?(\d{1,3})?$
RE_H_M_S_MS(s) ==
    LET K == {k \in 1..DigitRun(s) :
                /\ ColonTwoDigits(s, k + 1)
                /\ ColonTwoDigits(s, k + 4)
                /\ FracTailMatches(SubFrom(s, k + 7))}
    IN  IF K = {} THEN NoMatch
        ELSE LET k == Max(K)
             IN  [matched |-> TRUE, g1 |-> SubSeq(s, 1, k),
                  g2 |-> SubSeq(s, k + 2, k + 3),
                  g3 |-> SubSeq(s, k + 5, k + 6),
                  g4 |-> FracTailGroup(SubFrom(s, k + 7))]

\* ------------------------------------------------------------ Timestamp

\* u32 arithmetic: with overflow checks (debug profile) an overflow panics,
\* without them (release profile) the result wraps modulo 2^32.
ChkU32(exact, oc) ==
    IF FitsU32(exact) THEN exact
    ELSE IF oc THEN Overflowed ELSE WrapU32(exact)

U32Mul(k, a, oc) == IF Bad(a) THEN a ELSE ChkU32(NMul(k, a), oc)

U32Add(a, b, oc) ==
    IF Bad(a) THEN a ELSE IF Bad(b) THEN b ELSE ChkU32(NAdd(a, b), oc)

RECURSIVE Pow10(_)
Pow10(k) == IF k = 0 THEN 1 ELSE 10 * Pow10(k - 1)

RECURSIVE ByteLength(_)
ByteLength(s) == IF s = <<>> THEN 0 ELSE ByteLen(s[1]) + ByteLength(Tail(s))

\* parse_ms: 0 for an absent group, else n * 10^(3 - len); the unwrap panics
\* on a group that u32::from_str rejects (a non-ASCII digit), before the
\* byte length is used.
parse_ms(ms) ==
    IF ms = None THEN <<0, 0>>
    ELSE LET n == ParseU32(ms)
         IN  IF Bad(n) THEN n
             ELSE NOfInt(n[2] * Pow10(3 - ByteLength(ms)))

Ok(seconds, milliseconds) ==
    IF Bad(seconds) \/ Bad(milliseconds) THEN [kind |-> "Panic"]
    ELSE [kind |-> "Ok", seconds |-> seconds, milliseconds |-> milliseconds[2]]

ParseErr(msg) == [kind |-> "Err", msg |-> msg]

Panic == [kind |-> "Panic"]

\* <Timestamp as FromStr>::from_str; oc: the build's overflow checks.
TimestampFromStr(s, oc) ==
    IF RE_S_MS(s).matched THEN
        LET captures == RE_S_MS(s)
        IN  Ok(ParseU32(captures.g1), parse_ms(captures.g2))
    ELSE IF RE_M_S_MS(s).matched THEN
        LET captures == RE_M_S_MS(s)
            m == ParseU32(captures.g1)
            sec == ParseU32(captures.g2)
        IN  Ok(U32Add(U32Mul(60, m, oc), sec, oc), parse_ms(captures.g3))
    ELSE IF RE_H_M_S_MS(s).matched THEN
        LET captures == RE_H_M_S_MS(s)
            h == ParseU32(captures.g1)
            m == ParseU32(captures.g2)
            sec == ParseU32(captures.g3)
        IN  Ok(U32Add(U32Add(U32Mul(60 * 60, h, oc), U32Mul(60, m, oc), oc), sec, oc),
               parse_ms(captures.g4))
    ELSE ParseErr("not a valid timestamp")

\* derive(PartialOrd, Ord) on Timestamp: seconds first, then milliseconds.
TimestampLess(a, b) ==
    \/ NLess(a.seconds, b.seconds)
    \/ a.seconds = b.seconds /\ a.milliseconds < b.milliseconds

\* ------------------------------------------------------------ Span

\* ^(.*)-(.*)$  -- the first group is greedy, so the split is at the last
\* dash; '.' does not match a line feed.
RE(s) ==
    LET K == {k \in 0..(Len(s) - 1) :
                /\ s[k + 1] = "-"
                /\ \A j \in 1..Len(s) : j # k + 1 => IsDot(s[j])}
    IN  IF K = {} THEN NoMatch
        ELSE LET k == Max(K)
             IN  [matched |-> TRUE, g1 |-> SubSeq(s, 1, k), g2 |-> SubFrom(s, k + 2)]

Timestamp(r) == [seconds |-> r.seconds, milliseconds |-> r.milliseconds]

OkSpan(start, end) == [kind |-> "Ok", start |-> start, end |-> end]

\* line 99 with start >= end
EndBeforeStart_OrEqual(start, end) == ~TimestampLess(start, end)

\* the comparison of line 99: start > end
EndBeforeStart(start, end) == TimestampLess(end, start)

\* <Span as FromStr>::from_str; oc: the build's overflow checks.
SpanFromStr(s, oc) ==
    IF ~RE(s).matched THEN ParseErr("doesn't contain a dash")
    ELSE LET captures == RE(s)
             start == TimestampFromStr(captures.g1, oc)
         IN  IF start.kind # "Ok" THEN start
             ELSE LET end == TimestampFromStr(captures.g2, oc)
                  IN  IF end.kind # "Ok" THEN end
                      ELSE IF EndBeforeStart(start, end)
                      THEN ParseErr("end is before start")
                      ELSE OkSpan(Timestamp(start), Timestamp(end))

\* derive(PartialOrd, Ord) on Span: start first, then end.
SpanLess(a, b) ==
    \/ TimestampLess(a.start, b.start)
    \/ a.start = b.start /\ TimestampLess(a.end, b.end)

\* ------------------------------------------------------------ inputs

\* the longest token of the exhaustive part of the parser's inputs
MaxTokLen == 5

TsAlphabet == {"0", "1", "5", ":", "."}

ShortTokens == UNION {[1..m -> TsAlphabet] : m \in 0..MaxTokLen}

\* leading fields up to and beyond the u32 range: 60 * 71582788 + 15 and
\* 3600 * 1193046 + 60 * 28 + 15 are u32::MAX = 4294967295
LeadFields ==
    { <<"0">>, <<"1">>, <<"7", "5">>,
      <<"7", "1", "5", "8", "2", "7", "8", "8">>,
      <<"7", "1", "5", "8", "2", "7", "8", "9">>,
      <<"1", "1", "9", "3", "0", "4", "6">>,
      <<"4", "2", "9", "4", "9", "6", "7", "2", "9", "5">>,
      <<"4", "2", "9", "4", "9", "6", "7", "2", "9", "6">> }

ColonFields ==
    { <<"5">>, <<"0", "0">>, <<"1", "5">>, <<"1", "6">>, <<"2", "8">>,
      <<"9", "9">>, <<"1", "2", "0">> }

FracParts ==
    { <<>>, <<".">>, <<".", "5">>, <<".", "0", "5">>,
      <<".", "0", "0", "5">>, <<".", "0", "0", "0", "5">>, <<"5">>,
      <<".", ArabicThree>> }

OptColonField == {<<>>} \cup {<<":">> \o f : f \in ColonFields}

StructTokens ==
    {l \o a \o b \o f :
        l \in LeadFields, a \in OptColonField, b \in OptColonField, f \in FracParts}

ExtraTokens ==
    { <<"-", "1">>, <<"+", "1">>, <<"a", "b", "c">>, <<"1", "x">>, <<" ", "1">>,
      <<"1", "\n">>, <<ArabicThree>>, <<"1", ".", ArabicThree>>,
      <<"1", ":", "0", ArabicThree>> }

TsTokens == ShortTokens \cup StructTokens \cup ExtraTokens

\* the two sides of a span text
SpanSides ==
    { <<"0">>, <<"3">>, <<"5">>, <<"1", ".", "5">>, <<"1", ".", "5", "0">>,
      <<"1", ":", "3", "0">>, <<"9", "0">>, <<"1", ":", "1", "2", "5">>,
      <<"1", ":", "0", "1", ":", "3", "0">>, <<"3", ".", "0", "0", "5">>,
      <<"a", "b", "c">>, <<>>, <<"1", "-", "2">>,
      <<"4", "2", "9", "4", "9", "6", "7", "2", "9", "6">>,
      <<"7", "1", "5", "8", "2", "7", "8", "8", ":", "1", "6">> }

SpanTexts ==
    {a \o <<"-">> \o b : a \in SpanSides, b \in SpanSides}
        \cup SpanSides
        \cup {<<"3", "-", "5", "\n">>, <<"3", "\n", "-", "5">>}

\* ------------------------------------------------------------ naming

IsUtf8(p) == \A j \in 1..Len(p) : p[j] # BadByte

\* ^(.*)\.?(.*)$ : input_re with the '.' optional
input_re_OptionalDot(s) ==
    IF \A j \in 1..Len(s) : IsDot(s[j])
    THEN [matched |-> TRUE, g1 |-> s, g2 |-> <<>>]
    ELSE NoMatch

\* input_re, ^(.*)\.(.*)$ : the split is at the last '.', and no character
\* of the text may be a line feed.
input_re(s) ==
    LET K == {k \in 0..(Len(s) - 1) :
                /\ s[k + 1] = "."
                /\ \A j \in 1..Len(s) : j # k + 1 => IsDot(s[j])}
    IN  IF K = {} THEN NoMatch
        ELSE LET k == Max(K)
             IN  [matched |-> TRUE, g1 |-> SubSeq(s, 1, k), g2 |-> SubFrom(s, k + 2)]

RECURSIVE log10_ceil_loop(_, _)
log10_ceil_loop(n, digits) ==
    IF n > 10 THEN log10_ceil_loop(n \div 10, digits + 1) ELSE digits

log10_ceil(n) == log10_ceil_loop(n, 1)

ClipWord == <<"_", "c", "l", "i", "p">>

\* lines 154-158; len is spans.len()
output_filename(base, ext, i, len, ndigits) ==
    IF len = 1 THEN base \o ClipWord \o <<".">> \o ext
    ELSE base \o ClipWord \o FormatPad(NOfInt(i), ndigits) \o <<".">> \o ext

\* ------------------------------------------------------------ extraction

\* "{}.{:03}"
FormatSecMs(sec, ms) == FormatDec(sec) \o <<".">> \o FormatPad(ms, 3)

seek(span) == FormatSecMs(span.start.seconds, NOfInt(span.start.milliseconds))

\* end total - (start.seconds * 1000 + start.milliseconds)
time_total_ms_Difference(span) ==
    LET e == NAdd(NMul(1000, span.end.seconds), NOfInt(span.end.milliseconds))
        b == NAdd(NMul(1000, span.start.seconds), NOfInt(span.start.milliseconds))
    IN  IF NLess(e, b) THEN Overflowed ELSE NSub(e, b)

\* lines 161-163, in u64: the subtraction takes only start.seconds * 1000,
\* and start.milliseconds is then added.  A subtraction below zero
\* panics under overflow checks and wraps modulo 2^64 without them.
time_total_ms(span) ==
    LET e == NAdd(NMul(1000, span.end.seconds), NOfInt(span.end.milliseconds))
        b == NMul(1000, span.start.seconds)
    IN  IF NLess(e, b) THEN Overflowed
        ELSE NAdd(NSub(e, b), NOfInt(span.start.milliseconds))

\* the text of a duration that wrapped around 2^64 (not computed)
WrappedText == <<"wrapped">>

time(span) ==
    LET time_total_ms_ == time_total_ms(span)
    IN  IF Bad(time_total_ms_) THEN WrappedText
        ELSE FormatSecMs(NDiv(time_total_ms_, 1000), NOfInt(NMod(time_total_ms_, 1000)))

\* a status that is never looked at
StatusSuccess_Ignored(st) == TRUE

\* ExitStatus::success
StatusSuccess(st) == st = 0

\* ------------------------------------------------------------ sort

RECURSIVE Insert(_, _)
Insert(x, sorted) ==
    IF sorted = <<>> THEN <<x>>
    ELSE IF SpanLess(x, Head(sorted)) THEN <<x>> \o sorted
    ELSE <<Head(sorted)>> \o Insert(x, Tail(sorted))

\* no sort: the spans stay in input order
SortSpans_InputOrder(s) == s

\* spans.sort(): stable, ascending by the derived Ord.
RECURSIVE SortSpans(_)
SortSpans(s) ==
    IF s = <<>> THEN <<>>
    ELSE Insert(s[Len(s)], SortSpans(SubSeq(s, 1, Len(s) - 1)))

\* ------------------------------------------------------------ state

VARIABLES
    pc,               \* the point the program (or the function under study) is at
    overflow_checks,  \* the build: TRUE for the debug profile, FALSE for release
    text,             \* the token handed to from_str (parser specifications)
    result,           \* what from_str returned for it
    opt,              \* Opt: timestamps_file, clip, output, file
    fs,               \* the timestamps file: whether it opens, and its lines
    spans,            \* Vec<Span>
    cursor,           \* lines and clips consumed so far
    loc,              \* main's locals: input_file, base, ext, ndigits
    i,                \* the index of the extraction loop
    calls,            \* the ffmpeg invocations made so far, oldest first
    exit_code,        \* the process's exit status, -1 while it runs
    len,              \* spans.len() (naming specification)
    n,                \* log10_ceil's n
    digits            \* log10_ceil's digits

vars == <<pc, overflow_checks, text, result, opt, fs, spans, cursor, loc, i,
          calls, exit_code, len, n, digits>>

mainVars == <<opt, fs, spans, cursor, loc, i, calls, exit_code>>

parseVars == <<text, result>>

namerVars == <<len, n, digits>>

NoResult == [kind |-> "None"]

NoLoc == [input_file |-> <<>>, base |-> <<>>, ext |-> <<>>, ndigits |-> 0]

ParseIdle == text = <<>> /\ result = NoResult

NamerIdle == len = 0 /\ n = 0 /\ digits = 0

MainIdle ==
    /\ opt = [timestamps_file |-> None, clip |-> <<>>, output |-> None, file |-> <<>>]
    /\ fs = [openable |-> FALSE, lines |-> <<>>]
    /\ spans = <<>>
    /\ cursor = [line |-> 0, clip |-> 0]
    /\ loc = NoLoc
    /\ i = 0
    /\ calls = <<>>
    /\ exit_code = -1

\* ------------------------------------------------------------ main: inputs

\* the most --clip options
MaxClips == 2

SeqUpTo(S, k) == UNION {[1..m -> S] : m \in 0..k}

\* span texts: valid ones (a tie on start, a start with milliseconds, an end
\* at the top of the u32 range), one with end before start, one whose
\* seconds exceed u32, one whose 60 * m + s exceeds u32
MainTexts ==
    { <<"3", "-", "5">>, <<"3", "-", "4">>, <<"1", ".", "5", "-", "3">>,
      <<"3", ".", "0", "5", "-", "4", "2", "9", "4", "9", "6", "7", "2", "9", "5", ".", "9", "9", "9">>,
      <<"5", "-", "3">>,
      <<"4", "2", "9", "4", "9", "6", "7", "2", "9", "6", "-", "5">>,
      <<"0", "-", "7", "1", "5", "8", "2", "7", "8", "8", ":", "1", "6">> }

\* a line read from the file: Ok(String), or Err (an I/O error, invalid UTF-8)
OkLine(t) == [ok |-> TRUE, text |-> t]

ErrLine == [ok |-> FALSE, text |-> <<>>]

\* the contents a timestamps file is given
FileContents ==
    { <<>>,
      <<OkLine(<<"3", "-", "5">>)>>,
      <<OkLine(<<"3", "-", "5">>), OkLine(<<"1", ".", "5", "-", "3">>)>>,
      <<OkLine(<<"3", "-", "4">>), OkLine(<<"5", "-", "3">>)>>,
      <<OkLine(<<"4", "2", "9", "4", "9", "6", "7", "2", "9", "6", "-", "5">>)>>,
      <<ErrLine>>,
      <<OkLine(<<"3", "-", "5">>), ErrLine>> }

FileSystems ==
    {[openable |-> FALSE, lines |-> <<>>]}
        \cup {[openable |-> TRUE, lines |-> l] : l \in FileContents}

TimestampPaths == {<<"t">>, <<"t", BadByte>>}

\* FILE and --output: with and without an extension, with a byte that is
\* not UTF-8, with a line feed
PathCases ==
    { [file |-> <<"a", ".", "b">>, output |-> None],
      [file |-> <<"a">>, output |-> None],
      [file |-> <<"a", BadByte, ".", "b">>, output |-> None],
      [file |-> <<"a">>, output |-> <<"o", ".", "x", ".", "y">>],
      [file |-> <<"a", ".", "b">>, output |-> <<"o">>],
      [file |-> <<"a", ".", "b">>, output |-> <<"o", BadByte, ".", "x">>],
      [file |-> <<"a", ".", "b">>, output |-> <<"o", "\n", ".", "x">>],
      [file |-> <<"a", BadByte, ".", "b">>, output |-> <<"o", ".", "x">>] }

Opts ==
    {[timestamps_file |-> tf, clip |-> c, output |-> p.output, file |-> p.file] :
        tf \in {None} \cup TimestampPaths,
        c \in SeqUpTo(MainTexts, MaxClips),
        p \in PathCases}

Init ==
    /\ pc = "start"
    /\ overflow_checks \in BOOLEAN
    /\ opt \in Opts
    /\ fs \in FileSystems
    /\ opt.timestamps_file = None => fs = [openable |-> FALSE, lines |-> <<>>]
    /\ spans = <<>>
    /\ cursor = [line |-> 0, clip |-> 0]
    /\ loc = NoLoc
    /\ i = 0
    /\ calls = <<>>
    /\ exit_code = -1
    /\ ParseIdle
    /\ NamerIdle

\* ------------------------------------------------------------ main: steps

\* process::exit(code), or the exit of a panic (status 101)
Exit(code) == pc' = "exit" /\ exit_code' = code

PanicStatus == 101

\* eprintln!("...{}", path.as_os_str().to_str().unwrap()); process::exit(1)
ExitNamingPath(path) == Exit(IF IsUtf8(path) THEN 1 ELSE PanicStatus)

\* what the unwrap_or_else of a Span parse leaves: exit(1) for an Err; a
\* panic inside from_str has already ended the process
ExitOfParse(r) == Exit(IF r.kind = "Err" THEN 1 ELSE PanicStatus)

\* lines 112-116
OpenFile ==
    /\ pc = "start"
    /\ IF opt.timestamps_file = None
       THEN pc' = "clips" /\ UNCHANGED exit_code
       ELSE IF fs.openable
            THEN pc' = "lines" /\ UNCHANGED exit_code
            ELSE ExitNamingPath(opt.timestamps_file)
    /\ UNCHANGED <<overflow_checks, opt, fs, spans, cursor, loc, i, calls>>
    /\ UNCHANGED <<parseVars, namerVars>>

\* lines 117-128: one turn of the loop over the file's lines
ReadLine ==
    /\ pc = "lines"
    /\ IF cursor.line = Len(fs.lines)
       THEN pc' = "clips" /\ UNCHANGED <<exit_code, spans, cursor>>
       ELSE LET line == fs.lines[cursor.line + 1]
                r == SpanFromStr(line.text, overflow_checks)
            IN  IF ~line.ok
                THEN ExitNamingPath(opt.timestamps_file) /\ UNCHANGED <<spans, cursor>>
                ELSE IF r.kind = "Ok"
                THEN /\ spans' = Append(spans, [start |-> r.start, end |-> r.end])
                     /\ cursor' = [cursor EXCEPT !.line = @ + 1]
                     /\ UNCHANGED <<pc, exit_code>>
                ELSE ExitOfParse(r) /\ UNCHANGED <<spans, cursor>>
    /\ UNCHANGED <<overflow_checks, opt, fs, loc, i, calls>>
    /\ UNCHANGED <<parseVars, namerVars>>

\* lines 131-137: one turn of the loop over the --clip values
ParseClip ==
    /\ pc = "clips"
    /\ IF cursor.clip = Len(opt.clip)
       THEN pc' = "prepare" /\ UNCHANGED <<exit_code, spans, cursor>>
       ELSE LET r == SpanFromStr(opt.clip[cursor.clip + 1], overflow_checks)
            IN  IF r.kind = "Ok"
                THEN /\ spans' = Append(spans, [start |-> r.start, end |-> r.end])
                     /\ cursor' = [cursor EXCEPT !.clip = @ + 1]
                     /\ UNCHANGED <<pc, exit_code>>
                ELSE ExitOfParse(r) /\ UNCHANGED <<spans, cursor>>
    /\ UNCHANGED <<overflow_checks, opt, fs, loc, i, calls>>
    /\ UNCHANGED <<parseVars, namerVars>>

\* line 144
OutputBasis(o) == IF o.output = None THEN o.file ELSE o.output

\* lines 138-151: sort, input_file, the stem and extension, ndigits
Prepare ==
    /\ pc = "prepare"
    /\ spans' = SortSpans(spans)
    /\ LET output == OutputBasis(opt)
           captures == input_re(output)
       IN  IF ~IsUtf8(opt.file) \/ ~IsUtf8(output)
           THEN Exit(PanicStatus) /\ UNCHANGED loc
           ELSE IF ~captures.matched
           THEN Exit(1) /\ UNCHANGED loc
           ELSE /\ loc' = [input_file |-> opt.file,
                           base |-> captures.g1,
                           ext |-> captures.g2,
                           ndigits |-> log10_ceil(Len(spans))]
                /\ pc' = "loop"
                /\ UNCHANGED exit_code
    /\ UNCHANGED <<overflow_checks, opt, fs, cursor, i, calls>>
    /\ UNCHANGED <<parseVars, namerVars>>

\* the arguments of one invocation: -ss seek -i input_file -t time -c copy out
\* state: "running", "exited" (with the child's exit status), "not spawned"
Invocation(span, idx, state) ==
    [ss |-> seek(span),
     input |-> loc.input_file,
     t |-> time(span),
     out |-> output_filename(loc.base, loc.ext, idx, Len(spans), loc.ndigits),
     state |-> state,
     status |-> -1]

\* lines 153-174: the loop's test, the three strings, and Command::status
\* up to the spawn, which the environment lets succeed or fail
Spawn ==
    /\ pc = "loop"
    /\ IF i = Len(spans)
       THEN Exit(0) /\ UNCHANGED calls
       ELSE IF Bad(time_total_ms(spans[i + 1])) /\ overflow_checks
       THEN Exit(PanicStatus) /\ UNCHANGED calls
       ELSE \E spawned \in BOOLEAN :
              IF spawned
              THEN /\ calls' = Append(calls, Invocation(spans[i + 1], i, "running"))
                   /\ pc' = "wait"
                   /\ UNCHANGED exit_code
              ELSE /\ calls' = Append(calls, Invocation(spans[i + 1], i, "not spawned"))
                   /\ Exit(1)
    /\ UNCHANGED <<overflow_checks, opt, fs, spans, cursor, loc, i>>
    /\ UNCHANGED <<parseVars, namerVars>>

\* the exit statuses the tool is let to return
ToolStatuses == {0, 1}

\* lines 170-178: the child exits; status() returns; the loop goes on or
\* the process exits
ToolExit ==
    /\ pc = "wait"
    /\ \E st \in ToolStatuses :
         /\ calls' = [calls EXCEPT ![Len(calls)].state = "exited",
                                   ![Len(calls)].status = st]
         /\ IF StatusSuccess(st)
            THEN /\ i' = i + 1
                 /\ pc' = "loop"
                 /\ UNCHANGED exit_code
            ELSE /\ Exit(1)
                 /\ UNCHANGED i
    /\ UNCHANGED <<overflow_checks, opt, fs, spans, cursor, loc>>
    /\ UNCHANGED <<parseVars, namerVars>>

Next == OpenFile \/ ReadLine \/ ParseClip \/ Prepare \/ Spawn \/ ToolExit

Spec == Init /\ [][Next]_vars

\* ------------------------------------------------------------ Timestamp::from_str alone

InitTimestamp ==
    /\ pc = "timestamp"
    /\ overflow_checks \in BOOLEAN
    /\ text \in TsTokens
    /\ result = NoResult
    /\ MainIdle
    /\ NamerIdle

\* one call of <Timestamp as FromStr>::from_str
ParseTimestamp ==
    /\ pc = "timestamp"
    /\ result' = TimestampFromStr(text, overflow_checks)
    /\ pc' = "returned"
    /\ UNCHANGED <<overflow_checks, text, mainVars, namerVars>>

NextTimestamp == ParseTimestamp

SpecTimestamp == InitTimestamp /\ [][NextTimestamp]_vars

\* ------------------------------------------------------------ Span::from_str alone

InitSpan ==
    /\ pc = "span"
    /\ overflow_checks \in BOOLEAN
    /\ text \in SpanTexts
    /\ result = NoResult
    /\ MainIdle
    /\ NamerIdle

\* lines 132-136 for one text: <Span as FromStr>::from_str, and the push of
\* the Span it returns
ParseSpan ==
    /\ pc = "span"
    /\ LET r == SpanFromStr(text, overflow_checks)
       IN  /\ result' = r
           /\ spans' = IF r.kind = "Ok"
                       THEN Append(spans, [start |-> r.start, end |-> r.end])
                       ELSE spans
    /\ pc' = "returned"
    /\ UNCHANGED <<overflow_checks, text, namerVars>>
    /\ UNCHANGED <<opt, fs, cursor, loc, i, calls, exit_code>>

NextSpan == ParseSpan

SpecSpan == InitSpan /\ [][NextSpan]_vars

\* ------------------------------------------------------------ the output names of N spans

\* the most spans named
MaxSpans == 112

\* the stem and extension the names are built from
NamerLoc == [input_file |-> <<"m", ".", "e">>, base |-> <<"m">>, ext |-> <<"e">>, ndigits |-> 0]

InitNamer ==
    /\ pc = "log10_ceil"
    /\ overflow_checks \in BOOLEAN
    /\ len \in 0..MaxSpans
    /\ n = len
    /\ digits = 1
    /\ loc = NamerLoc
    /\ i = 0
    /\ calls = <<>>
    /\ opt = [timestamps_file |-> None, clip |-> <<>>, output |-> None, file |-> <<>>]
    /\ fs = [openable |-> FALSE, lines |-> <<>>]
    /\ spans = <<>>
    /\ cursor = [line |-> 0, clip |-> 0]
    /\ exit_code = -1
    /\ ParseIdle

\* lines 184-187: one turn of log10_ceil's loop
Log10CeilStep ==
    /\ pc = "log10_ceil"
    /\ n > 10
    /\ n' = n \div 10
    /\ digits' = digits + 1
    /\ UNCHANGED <<pc, overflow_checks, len, parseVars, mainVars>>

\* lines 188 and 151: the loop ends, ndigits is what log10_ceil returns
Log10CeilReturn ==
    /\ pc = "log10_ceil"
    /\ ~(n > 10)
    /\ loc' = [loc EXCEPT !.ndigits = digits]
    /\ pc' = "naming"
    /\ UNCHANGED <<overflow_checks, len, n, digits, parseVars>>
    /\ UNCHANGED <<opt, fs, spans, cursor, i, calls, exit_code>>

\* lines 153-158: the output filename of index i; calls holds the last name
NameSpan ==
    /\ pc = "naming"
    /\ i < len
    /\ calls' = <<[out |-> output_filename(loc.base, loc.ext, i, len, loc.ndigits),
                  index |-> i]>>
    /\ i' = i + 1
    /\ UNCHANGED <<pc, overflow_checks, len, n, digits, parseVars>>
    /\ UNCHANGED <<opt, fs, spans, cursor, loc, exit_code>>

NextNamer == Log10CeilStep \/ Log10CeilReturn \/ NameSpan

SpecNamer == InitNamer /\ [][NextNamer]_vars

\* ------------------------------------------------------------ claims: Timestamp::from_str

Returned == pc = "returned"

HasChar(s, c) == \E j \in 1..Len(s) : s[j] = c

FirstIndex(s, c) == CHOOSE j \in 1..Len(s) : s[j] = c /\ \A m \in 1..(j - 1) : s[m] # c

\* the fields of a text between its ':' characters
RECURSIVE SplitColon(_)
SplitColon(s) ==
    IF ~HasChar(s, ":") THEN <<s>>
    ELSE <<SubSeq(s, 1, FirstIndex(s, ":") - 1)>>
             \o SplitColon(SubFrom(s, FirstIndex(s, ":") + 1))

AsciiDigitString(s) == s # <<>> /\ \A j \in 1..Len(s) : s[j] \in AsciiDigits

\* the value of a string of ASCII digits, exact (no width)
RECURSIVE DecValue(_)
DecValue(s) ==
    IF s = <<>> THEN <<0, 0>>
    ELSE NAdd(NMul(10, DecValue(SubSeq(s, 1, Len(s) - 1))), NOfInt(DigitVal(s[Len(s)])))

\* hours * 3600 + minutes * 60 + seconds, exact, of two or three fields
Linear(f) ==
    IF Len(f) = 2
    THEN NAdd(NMul(60, DecValue(f[1])), DecValue(f[2]))
    ELSE NAdd(NAdd(NMul(3600, DecValue(f[1])), NMul(60, DecValue(f[2]))), DecValue(f[3]))

\* a text of two or three ':'-separated fields of ASCII digits, the last
\* optionally followed by '.' and one to three digits
LastField(f) == f[Len(f)]

LastDigits(f) ==
    IF HasChar(LastField(f), ".")
    THEN SubSeq(LastField(f), 1, FirstIndex(LastField(f), ".") - 1)
    ELSE LastField(f)

LastFraction(f) ==
    IF HasChar(LastField(f), ".")
    THEN SubFrom(LastField(f), FirstIndex(LastField(f), ".") + 1)
    ELSE <<>>

WholeFields(f) == [j \in 1..Len(f) |-> IF j = Len(f) THEN LastDigits(f) ELSE f[j]]

ColonForm(s) ==
    LET f == SplitColon(s)
    IN  /\ Len(f) \in {2, 3}
        /\ \A j \in 1..Len(f) : AsciiDigitString(WholeFields(f)[j])
        /\ LastFraction(f) = <<>> \/ (AsciiDigitString(LastFraction(f)) /\ Len(LastFraction(f)) <= 3)

FieldsAtMost(s, k) == \A j \in 1..Len(SplitColon(s)) : Len(WholeFields(SplitColon(s))[j]) <= k

\* C3 as stated: in MM:SS[.fff] and HH:MM:SS[.fff] every field may be any
\* unsigned decimal integer, of any number of digits, and the result is
\* hours*3600 + minutes*60 + seconds.  (Stated for fields of at most three
\* digits, where no 32-bit limit is near.)
C3_AnyIntegerInEachField ==
    (Returned /\ ColonForm(text) /\ FieldsAtMost(text, 3))
        => /\ result.kind = "Ok"
           /\ result.seconds = Linear(WholeFields(SplitColon(text)))

\* the fields after the first are exactly two ASCII digits each; the last
\* may be followed by more characters, which are not part of the seconds
TwoDigitFields(f) ==
    /\ Len(f) \in {2, 3}
    /\ AsciiDigitString(f[1])
    /\ Len(f) = 3 => (Len(f[2]) = 2 /\ AsciiDigitString(f[2]))
    /\ Len(LastField(f)) >= 2
    /\ AsciiDigitString(SubSeq(LastField(f), 1, 2))

SecondsOfTwoDigitFields(f) ==
    Linear([j \in 1..Len(f) |-> IF j = Len(f) THEN SubSeq(f[j], 1, 2) ELSE f[j]])

\* C3, amended: a ':'-separated token is accepted only if every field after
\* a ':' begins with exactly two digits that are its value (the middle field
\* is exactly two digits); the leading field may have any number of digits
\* and no field is range-checked (00..99 after a ':'); the fields add up
\* linearly: a returned Timestamp has seconds = hours*3600 + minutes*60 +
\* seconds modulo 2^32, and a token that is just such fields is never a
\* parse error and, when the sum fits 32 bits, yields exactly the sum.
C3_TwoDigitFieldsLinear ==
    (Returned /\ HasChar(text, ":")) =>
        LET f == SplitColon(text)
        IN  /\ result.kind = "Ok" =>
                  /\ TwoDigitFields(f)
                  /\ result.seconds = WrapU32(SecondsOfTwoDigitFields(f))
            /\ (TwoDigitFields(f) /\ Len(LastField(f)) = 2) =>
                  /\ result.kind # "Err"
                  /\ FitsU32(SecondsOfTwoDigitFields(f)) =>
                        /\ result.kind = "Ok"
                        /\ result.seconds = SecondsOfTwoDigitFields(f)
            /\ (Len(f) = 2 /\ AsciiDigitString(f[1]) /\ Len(f[2]) = 1) =>
                  result.kind = "Err"

\* "75:00" was parsed: 75 minutes, 4500 seconds
C3_Witness ==
    /\ Returned
    /\ text = <<"7", "5", ":", "0", "0">>
    /\ result.kind = "Ok"
    /\ result.seconds = <<0, 4500>>

\* the seconds the matched pattern's groups stand for, exact
ExactSeconds(s) ==
    IF RE_S_MS(s).matched THEN DecValue(RE_S_MS(s).g1)
    ELSE IF RE_M_S_MS(s).matched
    THEN Linear(<<RE_M_S_MS(s).g1, RE_M_S_MS(s).g2>>)
    ELSE Linear(<<RE_H_M_S_MS(s).g1, RE_H_M_S_MS(s).g2, RE_H_M_S_MS(s).g3>>)

\* C8 as stated: from_str has exactly two outcomes for every token: a
\* Timestamp whose seconds is the exact hours*3600 + minutes*60 + seconds
\* (never wrapped), or the "not a valid timestamp" error; it never panics
\* (stated for tokens of ASCII characters).
C8_TotalExactOrParseError ==
    (Returned /\ ~HasChar(text, ArabicThree)) =>
        \/ result = ParseErr("not a valid timestamp")
        \/ /\ result.kind = "Ok"
           /\ result.seconds = ExactSeconds(text)

\* the milliseconds the fraction after the '.' stands for, 0 without one
MsOfDotFraction(s) ==
    IF ~HasChar(s, ".") THEN 0
    ELSE LET frac == SubFrom(s, FirstIndex(s, ".") + 1)
         IN  IF frac = <<>> THEN 0
             ELSE DecValue(frac)[2] * Pow10(3 - Len(frac))

\* C9 as stated: of an accepted token, milliseconds is decided by the digits
\* after the '.' alone (k digits of value n give n * 10^(3-k)), a token
\* without such digits gives 0, and milliseconds < 1000.
C9_MillisecondsFromDotFraction ==
    (Returned /\ result.kind = "Ok") =>
        /\ result.milliseconds = MsOfDotFraction(text)
        /\ result.milliseconds < 1000

\* ------------------------------------------------------------ claims: Span::from_str

\* a Timestamp in milliseconds (its order, as milliseconds < 1000)
TotalMs(ts) == NAdd(NMul(1000, ts.seconds), NOfInt(ts.milliseconds))

LastIndex(s, c) == CHOOSE j \in 1..Len(s) : s[j] = c /\ \A m \in (j + 1)..Len(s) : s[m] # c

\* the two sides of the last dash of a text, each parsed on its own
StartSide(s) == TimestampFromStr(SubSeq(s, 1, LastIndex(s, "-") - 1), overflow_checks)

EndSide(s) == TimestampFromStr(SubFrom(s, LastIndex(s, "-") + 1), overflow_checks)

\* C6: every Span that from_str returns, and every Span collected, has
\* start <= end; its start and end are the two sides in the order written;
\* a text with end before start is the error "end is before start", and one
\* with start = end is accepted.
C6_StartNotAfterEnd ==
    /\ \A k \in 1..Len(spans) : NLeq(TotalMs(spans[k].start), TotalMs(spans[k].end))
    /\ Returned =>
        /\ result.kind = "Ok" =>
              /\ NLeq(TotalMs(result.start), TotalMs(result.end))
              /\ result.start = Timestamp(StartSide(text))
              /\ result.end = Timestamp(EndSide(text))
              /\ spans = <<[start |-> result.start, end |-> result.end]>>
        /\ result.kind # "Ok" => spans = <<>>
        /\ (HasChar(text, "-") /\ StartSide(text).kind = "Ok" /\ EndSide(text).kind = "Ok") =>
              IF NLess(TotalMs(EndSide(text)), TotalMs(StartSide(text)))
              THEN result = ParseErr("end is before start")
              ELSE result.kind = "Ok"

\* "90-1:30" was parsed: start = end = 90 s, accepted and collected
C6_Witness ==
    /\ Returned
    /\ text = <<"9", "0", "-", "1", ":", "3", "0">>
    /\ result.kind = "Ok"
    /\ result.start = result.end
    /\ Len(spans) = 1

\* ------------------------------------------------------------ claims: output names

\* the least width w >= 1 with 10^w >= count: 1 up to 10, 2 up to 100, ...
RECURSIVE WidthPerPowerOfTen(_, _)
WidthPerPowerOfTen(count, w) ==
    IF Pow10(w) >= count THEN w ELSE WidthPerPowerOfTen(count, w + 1)

\* the characters of a name between "<stem>_clip" and ".<extension>"
IndexField(name) ==
    SubSeq(name, Len(loc.base) + Len(ClipWord) + 1, Len(name) - Len(loc.ext) - 1)

\* C2 as stated: for N > 1 spans the index is zero-padded to width 1 when
\* N <= 10, 2 once N exceeds 10, 3 once N exceeds 100 (and so on), and every
\* index 0..N-1 fits in that width.
C2_WidthGrowsPastEachPowerOfTen ==
    (pc = "naming" /\ len > 1) =>
        /\ loc.ndigits = WidthPerPowerOfTen(len, 1)
        /\ calls # <<>> =>
              /\ Len(IndexField(calls[1].out)) = loc.ndigits
              /\ DecValue(IndexField(calls[1].out)) = NOfInt(calls[1].index)

\* ------------------------------------------------------------ claims: main

NoInputs == opt.timestamps_file = None /\ opt.clip = <<>>

Exited == pc = "exit"

\* C1 as stated: with no timestamps file and no clip options the run has
\* zero spans, invokes the tool zero times and exits with status 0, for
\* every FILE and every --output (stated for those that are valid UTF-8).
C1_ZeroSpanRunExitsZero ==
    (NoInputs /\ ~HasChar(opt.file, BadByte) /\ ~HasChar(OutputBasis(opt), BadByte)) =>
        /\ spans = <<>>
        /\ calls = <<>>
        /\ Exited => exit_code = 0

NamingBasis == IF opt.output = None THEN opt.file ELSE opt.output

\* C1, amended: with no timestamps file and no clip options the run has zero
\* spans and invokes the tool zero times for every FILE and --output; it
\* exits 0 exactly when FILE and the naming basis (--output, else FILE) are
\* valid UTF-8 and the basis has an extension (a '.', and no line feed); it
\* exits 1 when the basis has none, and aborts with a panic (status 101)
\* when FILE or the basis is not valid UTF-8.
C1_ZeroSpanRun ==
    NoInputs =>
        /\ spans = <<>>
        /\ calls = <<>>
        /\ Exited =>
              exit_code =
                  IF HasChar(opt.file, BadByte) \/ HasChar(NamingBasis, BadByte) THEN 101
                  ELSE IF HasChar(NamingBasis, ".") /\ ~HasChar(NamingBasis, "\n") THEN 0
                  ELSE 1

\* a zero-span run named after --output has exited 0
C1_Witness ==
    /\ NoInputs
    /\ Exited
    /\ exit_code = 0
    /\ opt.output # None

\* the span texts the run is given: the file's lines, then the --clip values
GivenLines ==
    IF opt.timestamps_file # None /\ fs.openable
    THEN [k \in 1..Len(fs.lines) |-> fs.lines[k]]
    ELSE <<>>

FailsSpanParsing(t) == SpanFromStr(t, overflow_checks).kind = "Err"

SomeTextFailsParsing ==
    \/ \E k \in 1..Len(GivenLines) : GivenLines[k].ok /\ FailsSpanParsing(GivenLines[k].text)
    \/ \E k \in 1..Len(opt.clip) : FailsSpanParsing(opt.clip[k])

\* C4 as stated: if any span text (a line of the file or a --clip value)
\* fails Span parsing, the run exits with status 1 and the tool is never
\* invoked, wherever the bad text sits (stated for runs whose timestamps
\* path is valid UTF-8).
C4_ParseFailureExitsOneBeforeAnyCall ==
    (SomeTextFailsParsing /\ ~HasChar(opt.timestamps_file, BadByte)) =>
        /\ calls = <<>>
        /\ Exited => exit_code = 1

CallFailed(c) == c.state = "not spawned" \/ (c.state = "exited" /\ c.status # 0)

\* C5: an invocation that cannot be spawned or exits non-zero is the last
\* one ever made: the process has then exited with status 1, every
\* invocation before it exited with status 0, and the spans after it have
\* no invocation.
C5_FailStop ==
    \A k \in 1..Len(calls) :
        /\ CallFailed(calls[k]) =>
              /\ k = Len(calls)
              /\ Exited
              /\ exit_code = 1
        /\ k < Len(calls) => (calls[k].state = "exited" /\ calls[k].status = 0)

\* the second of four spans failed: two invocations, two spans never tried
C5_Witness ==
    /\ Len(spans) = 4
    /\ Len(calls) = 2
    /\ calls[2].state = "exited"
    /\ calls[2].status = 1
    /\ Exited

\* the number a text "S.mmm" stands for, in milliseconds
MsOfSecMs(t) ==
    NAdd(NMul(1000, DecValue(SubSeq(t, 1, FirstIndex(t, ".") - 1))),
         DecValue(SubFrom(t, FirstIndex(t, ".") + 1)))

\* C7: the duration passed for a span is "S.mmm" (three digits after the
\* '.') of (end total ms - start.seconds * 1000) + start.milliseconds, the
\* subtraction is not below zero and the result is below 2^64.
C7_DurationLeftToRight ==
    \A k \in 1..Len(calls) :
        LET span == spans[k]
            t == calls[k].t
        IN  /\ NLeq(NMul(1000, span.start.seconds), TotalMs(span.end))
            /\ HasChar(t, ".")
            /\ Len(t) - FirstIndex(t, ".") = 3
            /\ AsciiDigitString(SubSeq(t, 1, FirstIndex(t, ".") - 1))
            /\ AsciiDigitString(SubFrom(t, FirstIndex(t, ".") + 1))
            /\ MsOfSecMs(t) = NAdd(NSub(TotalMs(span.end), NMul(1000, span.start.seconds)),
                                   NOfInt(span.start.milliseconds))
            /\ FitsU64(MsOfSecMs(t))

\* the span 1.5-3 was passed as -ss 1.500 -t 2.500 (not 1.500)
C7_Witness ==
    \E k \in 1..Len(calls) :
        /\ calls[k].ss = <<"1", ".", "5", "0", "0">>
        /\ calls[k].t = <<"2", ".", "5", "0", "0">>

\* the spans of the given texts, in input order (when all of them parse)
GivenTexts ==
    [k \in 1..Len(GivenLines) |-> GivenLines[k].text] \o opt.clip

Collected ==
    [k \in 1..Len(GivenTexts) |->
        LET r == SpanFromStr(GivenTexts[k], overflow_checks)
        IN  [start |-> r.start, end |-> r.end]]

Count(x, seq) == Cardinality({k \in 1..Len(seq) : seq[k] = x})

\* ascending by (start, end), each in milliseconds
KeyLeq(a, b) ==
    \/ NLess(TotalMs(a.start), TotalMs(b.start))
    \/ TotalMs(a.start) = TotalMs(b.start) /\ NLeq(TotalMs(a.end), TotalMs(b.end))

\* the name of position k (from 0) among count spans
NameHasIndex(name, k, count) ==
    IF count = 1 THEN name = loc.base \o ClipWord \o <<".">> \o loc.ext
    ELSE /\ SubSeq(name, 1, Len(loc.base) + Len(ClipWord)) = loc.base \o ClipWord
         /\ SubFrom(name, Len(name) - Len(loc.ext)) = <<".">> \o loc.ext
         /\ AsciiDigitString(IndexField(name))
         /\ DecValue(IndexField(name)) = NOfInt(k)

\* every input of the run parses: the file opens and reads, every span text
\* is a Span, FILE and the naming basis are UTF-8 and the basis splits into
\* stem and extension
AllInputsParse ==
    /\ opt.timestamps_file # None => fs.openable
    /\ \A k \in 1..Len(GivenLines) : GivenLines[k].ok
    /\ \A k \in 1..Len(GivenTexts) : SpanFromStr(GivenTexts[k], overflow_checks).kind = "Ok"
    /\ ~HasChar(opt.file, BadByte)
    /\ ~HasChar(NamingBasis, BadByte)
    /\ HasChar(NamingBasis, ".")
    /\ ~HasChar(NamingBasis, "\n")

\* C10: invocations are made one at a time, each after the one before has
\* exited with status 0, in ascending (start, end) order of the spans; the
\* k-th (from 0) carries the seek of the k-th smallest span and the name of
\* index k; and when all inputs parse and no tool run fails, the run ends
\* with status 0 having made exactly one invocation per collected span,
\* duplicates included, whatever the input order.
C10_OnePerSpanInSortedOrder ==
    /\ \A k \in 1..Len(calls) :
          /\ calls[k].state = "running" => (k = Len(calls) /\ pc = "wait")
          /\ k < Len(calls) => (calls[k].state = "exited" /\ calls[k].status = 0)
          /\ calls[k].ss = FormatDec(spans[k].start.seconds) \o <<".">>
                               \o FormatPad(NOfInt(spans[k].start.milliseconds), 3)
          /\ NameHasIndex(calls[k].out, k - 1, Len(spans))
          /\ calls[k].input = opt.file
    /\ calls # <<>> =>
          /\ \A a, b \in 1..Len(spans) : a < b => KeyLeq(spans[a], spans[b])
          /\ Len(spans) = Len(Collected)
          /\ \A k \in 1..Len(spans) : Count(spans[k], spans) = Count(spans[k], Collected)
    /\ (Exited /\ AllInputsParse /\ \A k \in 1..Len(calls) : ~CallFailed(calls[k])) =>
          /\ exit_code = 0
          /\ Len(calls) = Len(GivenTexts)
          /\ Len(calls) = Len(spans)
          /\ \A k \in 1..Len(calls) : calls[k].state = "exited" /\ calls[k].status = 0

\* a successful run of four spans given out of order, two of them equal
C10_Witness ==
    /\ Exited
    /\ exit_code = 0
    /\ Len(calls) = 4
    /\ Collected # spans
    /\ \E a, b \in 1..4 : a < b /\ spans[a] = spans[b]

====
